---------------------------- MODULE Spec2Model ----------------------------
(* D8 inflow graph of smoderp2d (smoderp2d/flow_algorithm/D8.py).          *)
(*                                                                         *)
(* A raster mat_fd is a function [0..r-1 -> [0..c-1 -> value]], indexed    *)
(* from 0 like the numpy array of the source.  Offsets are pairs           *)
(* <<dr, dc>>, the row index grows southward.  Python lists are modelled   *)
(* as TLA+ sequences, so the Python element x[k] is x[k + 1] here.         *)
EXTENDS Integers, Sequences, FiniteSets, TLC

VARIABLES
    mat_fd,       \* the flow direction raster handed to the module
    inflows,      \* the graph returned by the last new_inflows(mat_fd)
    ij,           \* the cell <<i, j>> of the last inflow_dir(mat_fd, i, j)
    inflow_dirs,  \* the vector returned by that call
    inflow,       \* the bitmask handed directly to __directions
    cellin,       \* [cellin, inflow]: its result and the local left over
    done,         \* the operations that have returned
    raised        \* the operations that ended with an exception

vars == <<mat_fd, inflows, ij, inflow_dirs, inflow, cellin, done, raised>>

---------------------------------------------------------------------------
(* Bounds of the enumerated inputs *)

\* general rasters have at most MaxCells cells (every shape r x c within it)
MaxCells == 2

---------------------------------------------------------------------------
(* Program constants *)

\* the eight D8 codes
Codes == {1, 2, 4, 8, 16, 32, 64, 128}

\* data['NoDataValue'] of the nogis provider
NoDataValue == -9999

\* data['r'], data['c'] and the fill value of mat_fd in _load_nogis
NoGisRows == 10
NoGisCols == 1
FlowSouth == 4

\* what a raster cell may hold: a valid code or the no-data sentinel
Values == Codes \cup {NoDataValue}

\* the value a failed read is replaced by (except IndexError: value = -1)
IndexErrorValue == -1

\* new_inflows: direction = [128, 64, 32, 16, 8, 4, 2, 1]
direction == <<128, 64, 32, 16, 8, 4, 2, 1>>

\* coco with the codes of the two upper diagonal neighbours exchanged
cocoMirrored == << <<-1, 1, 2>>, <<-1, 0, 4>>, <<-1, -1, 8>>, <<0, -1, 1>>,
                   <<1, -1, 128>>, <<1, 0, 64>>, <<1, 1, 32>>, <<0, 1, 16>> >>

\* coco with the code 4 expected of the upper right neighbour as well
cocoDuplicate == << <<-1, 1, 4>>, <<-1, 0, 4>>, <<-1, -1, 2>>, <<0, -1, 1>>,
                    <<1, -1, 128>>, <<1, 0, 64>>, <<1, 1, 32>>, <<0, 1, 16>> >>

\* __directionsInflow / inflow_dir: coco[k] = [row offset, col offset, code]
coco == << <<-1, 1, 8>>, <<-1, 0, 4>>, <<-1, -1, 2>>, <<0, -1, 1>>,
           <<1, -1, 128>>, <<1, 0, 64>>, <<1, 1, 32>>, <<0, 1, 16>> >>

\* co with the offsets emitted for 128 and 32 exchanged
coSwapped == << <<1, 1>>, <<1, 0>>, <<1, -1>>, <<0, 1>>,
                <<-1, 1>>, <<-1, 0>>, <<-1, -1>>, <<0, -1>> >>

\* __directions: co[y], the offset emitted for direction[y]
co == << <<1, -1>>, <<1, 0>>, <<1, 1>>, <<0, 1>>,
         <<-1, 1>>, <<-1, 0>>, <<-1, -1>>, <<0, -1>> >>

---------------------------------------------------------------------------
(* Shape and indexing of the raster *)

\* mat_fd.shape[0], mat_fd.shape[1]
shape0(m) == Cardinality(DOMAIN m)
shape1(m) == Cardinality(DOMAIN m[0])

\* Python / numpy indexing of an axis of length n with the integer a:
\* 0..n-1 index from the front, -n..-1 index from the back (a + n),
\* anything else raises IndexError (modelled as the value n, never an index)
PyIndex(n, a) ==
    IF 0 <= a /\ a < n THEN a
    ELSE IF -n <= a /\ a < 0 THEN a + n
    ELSE n

\* the cell mat_fd[a][b] really reads; a component equal to the length of
\* its axis stands for the IndexError of that subscript
ReadCell(m, a, b) == <<PyIndex(shape0(m), a), PyIndex(shape1(m), b)>>

RaisesIndexError(m, a, b) ==
    \/ PyIndex(shape0(m), a) = shape0(m)
    \/ PyIndex(shape1(m), b) = shape1(m)

\* try: value = mat_fd[a][b]  except IndexError: value = -1
TryRead(m, a, b) ==
    IF RaisesIndexError(m, a, b) THEN IndexErrorValue
    ELSE m[PyIndex(shape0(m), a)][PyIndex(shape1(m), b)]

\* the exceptions the subscript mat_fd[a][b] raises
ReadExceptions(m, a, b) ==
    IF RaisesIndexError(m, a, b) THEN {"IndexError"} ELSE {}

\* a try statement without a handler for IndexError
ExceptNothing == {}

\* the exceptions the handler of __directionsInflow catches
ExceptDirectionsInflow == {"IndexError"}

\* the exceptions the handler of inflow_dir catches
ExceptInflowDir == {"IndexError"}

\* the exceptions that leave __directionsInflow(mat_fd, i, j)
DirectionsInflowEscaping(m, i, j) ==
    UNION {ReadExceptions(m, i + coco[k][1], j + coco[k][2])
               \ ExceptDirectionsInflow : k \in 1..Len(coco)}

---------------------------------------------------------------------------
(* __directionsInflow(mat_fd, i, j): the bitmask sum of the cell *)

\* the loop adding the value of every neighbour that holds a valid code
RECURSIVE DirectionsInflowFromAnyCode(_, _, _, _, _)
DirectionsInflowFromAnyCode(m, i, j, k, acc) ==
    IF k = Len(coco) THEN acc
    ELSE LET a == i + coco[k + 1][1]
             b == j + coco[k + 1][2]
             value == TryRead(m, a, b)
         IN  DirectionsInflowFromAnyCode(m, i, j, k + 1,
                 IF value \in Codes THEN acc + value ELSE acc)

\* the loop "for k in range(len(coco))" from k on, with the running sum acc
RECURSIVE DirectionsInflowFrom(_, _, _, _, _)
DirectionsInflowFrom(m, i, j, k, acc) ==
    IF k = Len(coco) THEN acc
    ELSE LET a == i + coco[k + 1][1]
             b == j + coco[k + 1][2]
             value == TryRead(m, a, b)
         IN  DirectionsInflowFrom(m, i, j, k + 1,
                 IF value = coco[k + 1][3] THEN acc + value ELSE acc)

__directionsInflow(m, i, j) == DirectionsInflowFrom(m, i, j, 0, 0)

---------------------------------------------------------------------------
(* __directions(inflow, direction): decode the bitmask sum *)

\* the decoding loop with the comparison "inflow > z" in place of ">="
RECURSIVE DirectionsFromStrict(_, _, _, _)
DirectionsFromStrict(rest, dirs, y, out) ==
    IF y = Len(dirs) THEN [cellin |-> out, inflow |-> rest]
    ELSE IF rest > dirs[y + 1]
         THEN DirectionsFromStrict(rest - dirs[y + 1], dirs, y + 1,
                                   Append(out, co[y + 1]))
         ELSE DirectionsFromStrict(rest, dirs, y + 1, out)

\* the loop "for z in direction" from position y on; rest is the local
\* variable inflow, out the list cellin
RECURSIVE DirectionsFrom(_, _, _, _)
DirectionsFrom(rest, dirs, y, out) ==
    IF y = Len(dirs) THEN [cellin |-> out, inflow |-> rest]
    ELSE IF rest >= dirs[y + 1]
         THEN DirectionsFrom(rest - dirs[y + 1], dirs, y + 1,
                             Append(out, co[y + 1]))
         ELSE DirectionsFrom(rest, dirs, y + 1, out)

\* the returned list and the final value of the local inflow
DirectionsRun(infl, dirs) == DirectionsFrom(infl, dirs, 0, <<>>)

__directions(infl, dirs) == DirectionsRun(infl, dirs).cellin

---------------------------------------------------------------------------
(* new_inflows(mat_fd): the graph, one list per cell *)

new_inflows(m) ==
    [i \in 0..(shape0(m) - 1) |->
        [j \in 0..(shape1(m) - 1) |->
            __directions(__directionsInflow(m, i, j), direction)]]

\* the exceptions that leave new_inflows(mat_fd)
NewInflowsEscaping(m) ==
    UNION {DirectionsInflowEscaping(m, i, j) :
               i \in 0..(shape0(m) - 1), j \in 0..(shape1(m) - 1)}

\* the graph decoded from the entries of the masked array in_fldir, a masked
\* entry read as 0, in place of the local in_dir
NewInflowsFromInFldir(m, masks) ==
    [i \in 0..(shape0(m) - 1) |->
        [j \in 0..(shape1(m) - 1) |->
            __directions(IF masks[i][j] THEN 0
                         ELSE __directionsInflow(m, i, j), direction)]]

\* new_inflows under the ambient GridGlobals.masks: the masks only shape the
\* local in_fldir, which takes the sums and is never read again
NewInflowsUnderMasks(m, masks) == new_inflows(m)

---------------------------------------------------------------------------
(* inflow_dir(mat_fd, i, j): the 8-slot indicator vector *)

\* the read of slot k without the test "a < 0 or b < 0"
InflowDirValueUnguarded(m, i, j, k) ==
    TryRead(m, i + coco[k + 1][1], j + coco[k + 1][2])

\* the read of slot k with the test "a <= 0 or b <= 0"
InflowDirValueOverGuarded(m, i, j, k) ==
    LET a == i + coco[k + 1][1]
        b == j + coco[k + 1][2]
    IN  IF a <= 0 \/ b <= 0 THEN IndexErrorValue ELSE TryRead(m, a, b)

\* the value compared in slot k (0-based)
InflowDirValue(m, i, j, k) ==
    LET a == i + coco[k + 1][1]
        b == j + coco[k + 1][2]
    IN  IF a < 0 \/ b < 0 THEN IndexErrorValue ELSE TryRead(m, a, b)

\* the vector written in the order of direction and co (128 first): slot k
\* filled from the entry of coco four places on
inflow_dirDescending(m, i, j) ==
    [k \in 0..(Len(coco) - 1) |->
        IF InflowDirValue(m, i, j, (k + 4) % 8) = coco[((k + 4) % 8) + 1][3]
        THEN 1 ELSE 0]

\* slots 0..7 of np.zeros(8); a slot is set to 1 on a match
inflow_dir(m, i, j) ==
    [k \in 0..(Len(coco) - 1) |->
        IF InflowDirValue(m, i, j, k) = coco[k + 1][3] THEN 1 ELSE 0]

\* the exceptions that leave inflow_dir(mat_fd, i, j): the read is only
\* attempted when neither coordinate is negative
InflowDirEscaping(m, i, j) ==
    UNION {IF i + coco[k][1] < 0 \/ j + coco[k][2] < 0 THEN {}
           ELSE ReadExceptions(m, i + coco[k][1], j + coco[k][2])
                    \ ExceptInflowDir : k \in 1..Len(coco)}

---------------------------------------------------------------------------
(* Inputs *)

Rasters(r, c) == [0..(r - 1) -> [0..(c - 1) -> Values]]

\* values no validation has rejected: a combined code, the value of a
\* failed read
InvalidValues == {3, IndexErrorValue}

\* rasters that may hold invalid values too
MalformedRasters(r, c) ==
    [0..(r - 1) -> [0..(c - 1) -> Values \cup InvalidValues]]

\* every cell holds a valid code or the no-data value
WellFormed(m) ==
    \A i \in DOMAIN m : \A j \in DOMAIN m[i] : m[i][j] \in Values

\* the ambient GridGlobals.masks of the grid: the no-data cells are masked
GridGlobalsMasks(m) ==
    [i \in DOMAIN m |-> [j \in DOMAIN m[i] |-> m[i][j] = NoDataValue]]

\* other states GridGlobals.masks may be in for a grid of the same shape:
\* nothing masked, everything masked
MasksFor(m) ==
    {[i \in DOMAIN m |-> [j \in DOMAIN m[i] |-> FALSE]],
     [i \in DOMAIN m |-> [j \in DOMAIN m[i] |-> TRUE]]}

\* the raster the nogis provider builds: r x c, mat_fd.fill(4)
NoGisRaster == [i \in 0..(NoGisRows - 1) |-> [j \in 0..(NoGisCols - 1) |-> FlowSouth]]

\* the eight offsets around a cell
Offsets == {<<dr, dc>> \in (-1..1) \X (-1..1) : <<dr, dc>> # <<0, 0>>}

\* the D8 convention drawn in inflow_dir (north up, rows grow southward):
\*     32  64  128
\*     16       1
\*      8   4   2
\* the offset <<dr, dc>> from a cell to the cell its code sends the water to
FlowOffset(code) ==
    CASE code = 1   -> <<0, 1>>
      [] code = 2   -> <<1, 1>>
      [] code = 4   -> <<1, 0>>
      [] code = 8   -> <<1, -1>>
      [] code = 16  -> <<0, -1>>
      [] code = 32  -> <<-1, -1>>
      [] code = 64  -> <<-1, 0>>
      [] code = 128 -> <<-1, 1>>

\* the code with which the neighbour at the offset o flows into the cell
CodePointingFrom(o) ==
    CHOOSE code \in Codes : FlowOffset(code) = <<-o[1], -o[2]>>

\* a 3 x 3 raster: the neighbours of (1, 1) at the offsets in S flow into
\* (1, 1), the other neighbours hold no data, the centre holds v
Raster3x3(S, v) ==
    [a \in 0..2 |-> [b \in 0..2 |->
        IF <<a, b>> = <<1, 1>> THEN v
        ELSE IF <<a - 1, b - 1>> \in S THEN CodePointingFrom(<<a - 1, b - 1>>)
        ELSE NoDataValue]]

RECURSIVE SumOf(_)
SumOf(S) == IF S = {} THEN 0
            ELSE LET x == CHOOSE x \in S : TRUE IN x + SumOf(S \ {x})

NoRaster == <<>>
NotCalled == <<>>

InitRaster ==
    /\ \/ \E r \in 1..MaxCells, c \in 1..MaxCells :
              r * c <= MaxCells /\ mat_fd \in Rasters(r, c)
       \/ \E r \in 1..MaxCells, c \in 1..MaxCells :
              r * c <= MaxCells /\ mat_fd \in MalformedRasters(r, c)
       \/ mat_fd = NoGisRaster
       \/ \E S \in SUBSET Offsets : mat_fd = Raster3x3(S, NoDataValue)
       \/ \E v \in Values : mat_fd = Raster3x3(Offsets, v)
    /\ inflow = NotCalled

\* a bitmask handed to the decoder on its own: the sum of a set of codes
InitBitmask ==
    /\ mat_fd = NoRaster
    /\ \E S \in SUBSET Codes : inflow = SumOf(S)

Init ==
    /\ InitRaster \/ InitBitmask
    /\ inflows = NotCalled
    /\ ij = NotCalled
    /\ inflow_dirs = NotCalled
    /\ cellin = NotCalled
    /\ done = {}
    /\ raised = {}

---------------------------------------------------------------------------
(* Operations *)

CallNewInflows ==
    /\ mat_fd # NoRaster
    /\ IF NewInflowsEscaping(mat_fd) = {}
       THEN /\ inflows' = NewInflowsUnderMasks(mat_fd, GridGlobalsMasks(mat_fd))
            /\ done' = done \cup {"new_inflows"}
            /\ UNCHANGED raised
       ELSE /\ raised' = raised \cup {"new_inflows"}
            /\ UNCHANGED <<inflows, done>>
    /\ UNCHANGED <<mat_fd, ij, inflow_dirs, inflow, cellin>>

CallInflowDir ==
    /\ mat_fd # NoRaster
    /\ \E i \in 0..(shape0(mat_fd) - 1), j \in 0..(shape1(mat_fd) - 1) :
          IF InflowDirEscaping(mat_fd, i, j) = {}
          THEN /\ ij' = <<i, j>>
               /\ inflow_dirs' = inflow_dir(mat_fd, i, j)
               /\ done' = done \cup {"inflow_dir"}
               /\ UNCHANGED raised
          ELSE /\ raised' = raised \cup {"inflow_dir"}
               /\ UNCHANGED <<ij, inflow_dirs, done>>
    /\ UNCHANGED <<mat_fd, inflows, inflow, cellin>>

CallDirections ==
    /\ mat_fd = NoRaster
    /\ cellin' = DirectionsRun(inflow, direction)
    /\ done' = done \cup {"__directions"}
    /\ UNCHANGED <<mat_fd, inflows, ij, inflow_dirs, inflow, raised>>

Next == CallNewInflows \/ CallInflowDir \/ CallDirections

Spec == Init /\ [][Next]_vars

---------------------------------------------------------------------------
(* Vocabulary of the properties *)

HasRaster == mat_fd # NoRaster

Rows(m) == 0..(shape0(m) - 1)
Cols(m) == 0..(shape1(m) - 1)

\* (a, b) is a cell of the raster
InBounds(m, a, b) == a \in Rows(m) /\ b \in Cols(m)

\* the elements of a list
Range(seq) == {seq[p] : p \in 1..Len(seq)}

\* the neighbour of (i, j) at the offset o is a cell of the raster and its
\* code sends the water to (i, j)
FlowsInto(m, i, j, o) ==
    /\ InBounds(m, i + o[1], j + o[2])
    /\ m[i + o[1]][j + o[2]] \in Codes
    /\ FlowOffset(m[i + o[1]][j + o[2]]) = <<-o[1], -o[2]>>

\* the offset slot k (0-based) of coco probes, and the code it expects
SlotOffset(k) == <<coco[k + 1][1], coco[k + 1][2]>>
SlotCode(k) == coco[k + 1][3]
Slots == 0..(Len(coco) - 1)

---------------------------------------------------------------------------
(* C1 *)

\* C1: on the 10 x 1 raster of the nogis provider, every cell holding the
\* "flows south" code 4, new_inflows gives every cell of rows 1..9 the list
\* [(-1, 0)] and the topmost cell (row 0) the empty list.
C1_SouthFlowingGrid ==
    (HasRaster /\ mat_fd = NoGisRaster /\ "new_inflows" \in done) =>
        /\ \A i \in 1..(NoGisRows - 1) : inflows[i][0] = << <<-1, 0>> >>
        /\ inflows[0][0] = <<>>

---------------------------------------------------------------------------
(* C2 *)

\* C2: boundary policy of new_inflows: every offset in inflows[i][j] leads
\* to a cell inside the raster, and the bitmask sum of the cell is made of
\* the codes matched at neighbours inside the raster only.
C2_BoundaryPolicy ==
    (HasRaster /\ "new_inflows" \in done) =>
        \A i \in Rows(mat_fd), j \in Cols(mat_fd) :
            /\ \A o \in Range(inflows[i][j]) :
                   InBounds(mat_fd, i + o[1], j + o[2])
            /\ __directionsInflow(mat_fd, i, j) =
                   SumOf({SlotCode(k) : k \in
                       {k \in Slots :
                           /\ InBounds(mat_fd, i + SlotOffset(k)[1],
                                               j + SlotOffset(k)[2])
                           /\ mat_fd[i + SlotOffset(k)[1]]
                                    [j + SlotOffset(k)[2]] = SlotCode(k)}})

---------------------------------------------------------------------------
(* C3 *)

\* C3: exactness of the graph: an offset is in inflows[i][j] if and only if
\* the neighbour at that offset is inside the raster and holds the code whose
\* flow direction leads to (i, j).
C3_Exactness ==
    (HasRaster /\ WellFormed(mat_fd) /\ "new_inflows" \in done) =>
        \A i \in Rows(mat_fd), j \in Cols(mat_fd) :
            \A o \in Offsets \cup Range(inflows[i][j]) :
                (o \in Range(inflows[i][j])) <=> FlowsInto(mat_fd, i, j, o)

---------------------------------------------------------------------------
(* C4 *)

\* C4: on a 1 x 1 raster holding any valid code, inflow_dir at (0, 0) is the
\* all-zero vector and new_inflows gives (0, 0) the empty list.
C4_BoundaryAbsorption1x1 ==
    (HasRaster /\ shape0(mat_fd) = 1 /\ shape1(mat_fd) = 1
               /\ mat_fd[0][0] \in Codes) =>
        /\ "inflow_dir" \in done => \A k \in Slots : inflow_dirs[k] = 0
        /\ "new_inflows" \in done => inflows[0][0] = <<>>

---------------------------------------------------------------------------
(* C5 *)

\* C5: boundary handling of inflow_dir: slot k is 1 exactly when the k-th
\* neighbour is inside the raster and holds the code coco expects of it,
\* and 0 otherwise, in particular whenever the neighbour coordinate is
\* negative or beyond the extent.
C5_InflowDirBounds ==
    (HasRaster /\ "inflow_dir" \in done) =>
        \A k \in Slots :
            LET a == ij[1] + SlotOffset(k)[1]
                b == ij[2] + SlotOffset(k)[2]
            IN  /\ inflow_dirs[k] \in {0, 1}
                /\ inflow_dirs[k] = 1 <=>
                       (InBounds(mat_fd, a, b) /\ mat_fd[a][b] = SlotCode(k))

\* C5 witness: a query at a cell of row 0 or column 0 where a neighbour
\* coordinate is negative, the cell numpy would read there from the far
\* side holds the expected code, and another slot of the vector is 1
C5_Witness ==
    /\ HasRaster /\ "inflow_dir" \in done
    /\ \E k \in Slots :
           /\ ij[1] + SlotOffset(k)[1] < 0 \/ ij[2] + SlotOffset(k)[2] < 0
           /\ TryRead(mat_fd, ij[1] + SlotOffset(k)[1],
                              ij[2] + SlotOffset(k)[2]) = SlotCode(k)
           /\ inflow_dirs[k] = 0
    /\ \E k \in Slots : inflow_dirs[k] = 1

---------------------------------------------------------------------------
(* C6 *)

\* C6: the vector and the graph are two views of one relation: the offsets
\* whose slot is 1 in inflow_dir(mat_fd, i, j) are the offsets of
\* new_inflows(mat_fd)[i][j], for every cell, row 0 and column 0 included.
C6_TwoViews ==
    (HasRaster /\ "inflow_dir" \in done /\ "new_inflows" \in done) =>
        {SlotOffset(k) : k \in {k \in Slots : inflow_dirs[k] = 1}}
            = Range(inflows[ij[1]][ij[2]])

---------------------------------------------------------------------------
(* C7 *)

\* the codes present in the bitmask n
CodesOf(n) == {code \in Codes : (n \div code) % 2 = 1}

\* the offsets of the codes of S, largest code first; the offset of a code
\* is the place of the neighbour that flows into the cell with that code
RECURSIVE OffsetsDescending(_)
OffsetsDescending(S) ==
    IF S = {} THEN <<>>
    ELSE LET top == CHOOSE x \in S : \A y \in S : y <= x
         IN  << <<-FlowOffset(top)[1], -FlowOffset(top)[2]>> >>
                 \o OffsetsDescending(S \ {top})

\* C7: decomposition completeness: for every subset S of the eight codes,
\* __directions(sum(S), [128, ..., 1]) is the list of the offsets of the
\* codes of S, one per code, in descending code order; the value left after
\* the pass is 0, and sum 0 gives the empty list.
C7_DecompositionComplete ==
    (~HasRaster /\ "__directions" \in done) =>
        /\ cellin.cellin = OffsetsDescending(CodesOf(inflow))
        /\ Len(cellin.cellin) = Cardinality(CodesOf(inflow))
        /\ cellin.inflow = 0
        /\ inflow = 0 => cellin.cellin = <<>>

\* C7 witness: a bitmask with present and absent codes, the largest and the
\* smallest among the present, has been decoded
C7_Witness ==
    /\ ~HasRaster /\ "__directions" \in done
    /\ inflow = 128 + 4 + 1
    /\ Len(cellin.cellin) = 3

---------------------------------------------------------------------------
(* C8 *)

\* every neighbour of the centre of a 3 x 3 raster flows into the centre
AllFlowIntoCentre(m) ==
    /\ shape0(m) = 3 /\ shape1(m) = 3
    /\ \A o \in Offsets : FlowsInto(m, 1, 1, o)

\* C8: symmetry: when the eight neighbours of the centre of a 3 x 3 raster
\* all point at the centre, new_inflows gives the centre a list of length 8
\* holding each of the eight unit offsets exactly once, and inflow_dir at
\* (1, 1) is all ones, whatever the centre holds.
C8_Symmetry3x3 ==
    (HasRaster /\ AllFlowIntoCentre(mat_fd)) =>
        /\ "new_inflows" \in done =>
               /\ Len(inflows[1][1]) = 8
               /\ \A o \in Offsets :
                      Cardinality({p \in 1..Len(inflows[1][1]) :
                                      inflows[1][1][p] = o}) = 1
        /\ ("inflow_dir" \in done /\ ij = <<1, 1>>) =>
               \A k \in Slots : inflow_dirs[k] = 1

\* C8 witness: both operations have returned on such a raster, the query at
\* the centre, the centre itself holding a valid code
C8_Witness ==
    /\ HasRaster /\ AllFlowIntoCentre(mat_fd)
    /\ mat_fd[1][1] \in Codes
    /\ "new_inflows" \in done /\ "inflow_dir" \in done /\ ij = <<1, 1>>
    /\ Len(inflows[1][1]) = 8

---------------------------------------------------------------------------
(* C9 *)

\* C9: no self-loops in new_inflows: no entry of inflows[i][j] is (0, 0),
\* and no match that adds to the bitmask of (i, j) comes from reading the
\* value stored at (i, j) itself, whatever the shape of the raster.
C9_NoSelfLoops ==
    (HasRaster /\ "new_inflows" \in done) =>
        \A i \in Rows(mat_fd), j \in Cols(mat_fd) :
            /\ <<0, 0>> \notin Range(inflows[i][j])
            /\ \A k \in Slots :
                   LET a == i + SlotOffset(k)[1]
                       b == j + SlotOffset(k)[2]
                   IN  TryRead(mat_fd, a, b) = SlotCode(k) =>
                           ReadCell(mat_fd, a, b) # <<i, j>>

---------------------------------------------------------------------------
(* C10 *)

\* C10: the inflow of a cell does not depend on the cell's own code: for
\* every raster that differs from mat_fd at (i, j) only, new_inflows gives
\* (i, j) the same list and inflow_dir at (i, j) the same vector.
C10_OwnCodeIndependence ==
    /\ (HasRaster /\ "new_inflows" \in done) =>
           \A i \in Rows(mat_fd), j \in Cols(mat_fd), v \in Values :
               new_inflows([mat_fd EXCEPT ![i][j] = v])[i][j] = inflows[i][j]
    /\ (HasRaster /\ "inflow_dir" \in done) =>
           \A v \in Values :
               inflow_dir([mat_fd EXCEPT ![ij[1]][ij[2]] = v], ij[1], ij[2])
                   = inflow_dirs

\* new_inflows has just returned and no query has been made; a query
\* changes neither the raster nor the graph
JustBuilt == HasRaster /\ done = {"new_inflows"}

---------------------------------------------------------------------------
(* C11 *)

\* the probes of the cell (i, j) whose subscript raises IndexError
FailingProbes(m, i, j) ==
    {k \in Slots : RaisesIndexError(m, i + SlotOffset(k)[1],
                                       j + SlotOffset(k)[2])}

\* C11: totality: on a raster of valid codes and no-data values no call of
\* new_inflows or inflow_dir ends with an exception; new_inflows returns a
\* graph with one list per cell and inflow_dir a vector of eight slots; every
\* read that raises IndexError is given the value -1.
C11_Totality ==
    (HasRaster /\ WellFormed(mat_fd)) =>
        /\ raised = {}
        /\ "new_inflows" \in done =>
               /\ DOMAIN inflows = Rows(mat_fd)
               /\ \A i \in Rows(mat_fd) : DOMAIN inflows[i] = Cols(mat_fd)
        /\ "inflow_dir" \in done =>
               /\ DOMAIN inflow_dirs = Slots
               /\ \A k \in FailingProbes(mat_fd, ij[1], ij[2]) :
                      /\ TryRead(mat_fd, ij[1] + SlotOffset(k)[1],
                                         ij[2] + SlotOffset(k)[2]) = -1
                      /\ InflowDirValue(mat_fd, ij[1], ij[2], k) = -1

\* C11 witness: both operations have returned on a 3 x 3 raster, the query
\* at the corner (2, 2), where five of the eight reads raise IndexError
C11_Witness ==
    /\ HasRaster /\ WellFormed(mat_fd)
    /\ shape0(mat_fd) = 3 /\ shape1(mat_fd) = 3
    /\ "new_inflows" \in done /\ "inflow_dir" \in done
    /\ ij = <<2, 2>>
    /\ Cardinality(FailingProbes(mat_fd, 2, 2)) = 5
    /\ raised = {}

---------------------------------------------------------------------------
(* C12 *)

\* C12 as stated: slot k of the vector of inflow_dir stands for the k-th
\* octant of the descending order 128, 64, ..., 1 of __directions: slot k is
\* 1 iff the offset co[k] is in the inflow list of the cell.  Stated for the
\* cells outside row 0 and column 0, where no probe has a negative
\* coordinate and the list is the one the spec describes.
C12_SlotOrderDescending ==
    (HasRaster /\ "inflow_dir" \in done /\ "new_inflows" \in done
               /\ ij[1] > 0 /\ ij[2] > 0) =>
        \A k \in Slots :
            inflow_dirs[k] = 1 <=> co[k + 1] \in Range(inflows[ij[1]][ij[2]])

\* C12 amended: slot k stands for the k-th entry of coco, the code order
\* 8, 4, 2, 1, 128, 64, 32, 16, which is the descending order of
\* __directions rotated by four places: slot k is 1 iff the neighbour at the
\* offset co[(k + 4) mod 8] is inside the raster and holds the code
\* direction[(k + 4) mod 8].
C12_SlotOrderCoco ==
    (HasRaster /\ "inflow_dir" \in done) =>
        \A k \in Slots :
            LET y == (k + 4) % 8
                a == ij[1] + co[y + 1][1]
                b == ij[2] + co[y + 1][2]
            IN  inflow_dirs[k] = 1 <=>
                    (InBounds(mat_fd, a, b) /\ mat_fd[a][b] = direction[y + 1])

\* C12 witness: a query whose slot 0 (code 8, neighbour up right) is 1 while
\* slot 4 (code 128, neighbour down left, first in the descending order) is 0
C12_Witness ==
    /\ HasRaster /\ "inflow_dir" \in done
    /\ inflow_dirs[0] = 1 /\ inflow_dirs[4] = 0
    /\ mat_fd[ij[1] - 1][ij[2] + 1] = 8

---------------------------------------------------------------------------
(* C13 *)

---------------------------------------------------------------------------
(* C14 *)

\* the offset at which coco probes a neighbour expecting the code
ProbeOffsetOf(code) ==
    LET k == CHOOSE k \in Slots : SlotCode(k) = code IN SlotOffset(k)

\* C14: table pairing: coco and the parallel lists direction and co define
\* one bijection between the eight codes and the eight unit offsets; decoding
\* the singleton bitmask of a code gives exactly the offset at which the
\* builder probes for that code, so every entry of an inflow list is the
\* offset of a probe that matched.
C14_TablePairing ==
    /\ {SlotCode(k) : k \in Slots} = Codes
    /\ {SlotOffset(k) : k \in Slots} = Offsets
    /\ {direction[y] : y \in 1..Len(direction)} = Codes
    /\ \A y \in 1..Len(direction) : co[y] = ProbeOffsetOf(direction[y])
    /\ (~HasRaster /\ "__directions" \in done /\ inflow \in Codes) =>
           cellin.cellin = <<ProbeOffsetOf(inflow)>>
    /\ JustBuilt =>
           \A i \in Rows(mat_fd), j \in Cols(mat_fd) :
               \A o \in Range(inflows[i][j]) :
                   \E k \in Slots :
                       /\ SlotOffset(k) = o
                       /\ TryRead(mat_fd, i + o[1], j + o[2]) = SlotCode(k)

\* C14 witness: the singleton bitmask of code 8 has been decoded into the
\* one offset (-1, 1) at which coco expects 8
C14_Witness ==
    /\ ~HasRaster /\ "__directions" \in done
    /\ inflow = 8
    /\ cellin.cellin = << <<-1, 1>> >>

---------------------------------------------------------------------------
(* C15 *)

\* the probes of (i, j) whose read equals the code they expect
MatchedSlots(m, i, j) ==
    {k \in Slots : TryRead(m, i + SlotOffset(k)[1], j + SlotOffset(k)[2])
                       = SlotCode(k)}

\* the codes of the probes of the set ms before position n
CodesBefore(ms, n) == {SlotCode(k) : k \in {k \in ms : k < n}}

\* C15: the precondition of the decoder: for every raster, malformed ones
\* included, and every cell, the running sum of __directionsInflow before
\* each position n of its loop is the sum of the distinct codes matched so
\* far, one per matching probe, and lies in 0..255; the value returned is the
\* sum of the matched codes and is the value __directions decodes into the
\* list of the cell, one offset per matched probe.
C15_DecomposePrecondition ==
    JustBuilt =>
        \A i \in Rows(mat_fd), j \in Cols(mat_fd) :
            LET ms == MatchedSlots(mat_fd, i, j)
                in_dir == __directionsInflow(mat_fd, i, j)
            IN  /\ \A n \in 0..Len(coco) :
                       LET running == SumOf(CodesBefore(ms, n))
                       IN  /\ running \in 0..255
                           /\ Cardinality(CodesBefore(ms, n)) =
                                  Cardinality({k \in ms : k < n})
                           /\ DirectionsInflowFrom(mat_fd, i, j, n, running)
                                  = in_dir
                /\ in_dir = SumOf(CodesBefore(ms, Len(coco)))
                /\ inflows[i][j] = __directions(in_dir, direction)
                /\ Len(inflows[i][j]) = Cardinality(ms)

\* C15 witness: the graph of a raster with a cell whose sum is made of
\* three matched codes, decoded into three offsets
C15_Witness ==
    /\ JustBuilt
    /\ \E i \in Rows(mat_fd), j \in Cols(mat_fd) :
           /\ Cardinality(MatchedSlots(mat_fd, i, j)) = 3
           /\ Len(inflows[i][j]) = 3

---------------------------------------------------------------------------
(* C16 *)

\* C16: completeness: every neighbour inside the raster whose code sends the
\* water to (i, j) has its offset in new_inflows(mat_fd)[i][j] and the slot
\* of that offset set to 1 in inflow_dir(mat_fd, i, j).
C16_Completeness ==
    /\ JustBuilt =>
           \A i \in Rows(mat_fd), j \in Cols(mat_fd) :
               \A o \in Offsets :
                   FlowsInto(mat_fd, i, j, o) => o \in Range(inflows[i][j])
    /\ (HasRaster /\ "inflow_dir" \in done) =>
           \A k \in Slots :
               FlowsInto(mat_fd, ij[1], ij[2], SlotOffset(k)) =>
                   inflow_dirs[k] = 1

\* C16 witness: both operations have returned, the query at a cell of row 0
\* with a neighbour inside the raster flowing into it, found by both
C16_Witness ==
    /\ HasRaster /\ "new_inflows" \in done /\ "inflow_dir" \in done
    /\ ij[1] = 0
    /\ \E k \in Slots :
           /\ FlowsInto(mat_fd, ij[1], ij[2], SlotOffset(k))
           /\ inflow_dirs[k] = 1
           /\ SlotOffset(k) \in Range(inflows[ij[1]][ij[2]])

---------------------------------------------------------------------------
(* C17 *)

\* the (target, probe) pairs <<i, j, k>> at which the value stored at the
\* cell (a, b) is read and matches
MatchesOfSource(m, a, b) ==
    {t \in Rows(m) \X Cols(m) \X Slots :
        /\ ~RaisesIndexError(m, t[1] + SlotOffset(t[3])[1],
                                t[2] + SlotOffset(t[3])[2])
        /\ ReadCell(m, t[1] + SlotOffset(t[3])[1],
                       t[2] + SlotOffset(t[3])[2]) = <<a, b>>
        /\ m[a][b] = SlotCode(t[3])}

\* the number of entries of the lists of the cells in the set
RECURSIVE TotalEntries(_, _)
TotalEntries(g, cells) ==
    IF cells = {} THEN 0
    ELSE LET x == CHOOSE x \in cells : TRUE
         IN  Len(g[x[1]][x[2]]) + TotalEntries(g, cells \ {x})

\* C17: single-outflow conservation: the value stored at a cell matches for
\* at most one (target, octant) pair, the graph has at most rows x cols
\* entries in all, and it has exactly one list per cell, inflows[i][j] for
\* i in [0, rows) and j in [0, cols).
C17_SingleOutflow ==
    JustBuilt =>
        /\ \A a \in Rows(mat_fd), b \in Cols(mat_fd) :
               Cardinality(MatchesOfSource(mat_fd, a, b)) <= 1
        /\ TotalEntries(inflows, Rows(mat_fd) \X Cols(mat_fd))
               <= shape0(mat_fd) * shape1(mat_fd)
        /\ DOMAIN inflows = Rows(mat_fd)
        /\ \A i \in Rows(mat_fd) :
               /\ DOMAIN inflows[i] = Cols(mat_fd)
               /\ \A j \in Cols(mat_fd) :
                      DOMAIN inflows[i][j] = 1..Len(inflows[i][j])

\* C17 witness: a graph with as many entries as the raster has cells, more
\* than one cell, every cell being the source of one entry
C17_Witness ==
    /\ JustBuilt
    /\ shape0(mat_fd) * shape1(mat_fd) > 1
    /\ TotalEntries(inflows, Rows(mat_fd) \X Cols(mat_fd))
           = shape0(mat_fd) * shape1(mat_fd)
    /\ \A a \in Rows(mat_fd), b \in Cols(mat_fd) :
           Cardinality(MatchesOfSource(mat_fd, a, b)) = 1

===========================================================================
